---- MODULE Spec2Model ----
(***************************************************************************)
(* Model of the vending-machine analyzer of maquina_refrescos.py:          *)
(* AnalizadorSemantico.analizar_cadena = _validar_sintaxis, then           *)
(* _construir_arbol / _procesar_contenido, then _decorar_arbol.            *)
(*                                                                         *)
(* A string is a sequence of one-character strings.  A Nodo is a record;   *)
(* its children are the sequence hijos.  None is the empty sequence and a  *)
(* returned tree is the one-element sequence holding the root.             *)
(***************************************************************************)
EXTENDS Integers, Sequences, FiniteSets, TLC

VARIABLES
  cadena,            \* the string being entered, then the argument of the call
  errores_globales,  \* self.errores_globales of the one analyzer
  raiz, es_valida,   \* the pair the last call returned (raiz = <<>> is None)
  errores_previos,   \* history: errores_globales on entry of the last call
  pc                 \* "entrada" before the call, "retorno" after it

vars == <<cadena, errores_globales, raiz, es_valida, errores_previos, pc>>

(***************************************************************************)
(* Program constants (literals of _decorar_arbol).                         *)
(***************************************************************************)
PrecioRefresco == 3
MaxRefrescos == 3
MaxNivel == 3

(***************************************************************************)
(* Bounds of the model.                                                    *)
(***************************************************************************)
MaxLen == 3
MaxMonedas == 12
MaxCompras == 4
MaxBloques == 4
MaxSintaxis == 4
MaxGramatica == 6

Caracteres == {"{", "}", "$", "R", "<", " ", "x"}

\* the characters of the strings entered to exercise _validar_sintaxis: two
\* characters outside the alphabet, the braces, a token and the space
CaracteresSintaxis == {"{", "}", "$", " ", "x", "y"}

(***************************************************************************)
(* String helpers: Python's str.strip(), s[a:b] slices.                    *)
(***************************************************************************)
MinDe(S) == CHOOSE m \in S : \A n \in S : m <= n
MaxDe(S) == CHOOSE m \in S : \A n \in S : m >= n

\* str.strip(): drops leading and trailing whitespace (the model's only
\* whitespace character is the space).
Strip(s) ==
  LET noBlancos == {i \in 1..Len(s) : s[i] /= " "}
  IN  IF noBlancos = {} THEN <<>>
      ELSE SubSeq(s, MinDe(noBlancos), MaxDe(noBlancos))

\* s[1:-1]
SinExtremos(s) == SubSeq(s, 2, Len(s) - 1)

\* s[i:] with i a 0-based index, given here as the 1-based index of its
\* first character
Desde(s, k) == SubSeq(s, k, Len(s))

(***************************************************************************)
(* Nodo.__init__ and the attributes _decorar_arbol writes.  saldo_actual   *)
(* and refrescos_actual record, for an A node, the values of               *)
(* nodo.padre.saldo and nodo.padre.refrescos_comprados read when the node  *)
(* was decorated (history fields; the code holds them in locals), and for  *)
(* a C node the values lines 216-217 wrote into it before it was           *)
(* decorated, which its decoration then overwrites.                        *)
(***************************************************************************)
Nodo(simbolo, tipo, hijos) ==
  [simbolo |-> simbolo, tipo |-> tipo, hijos |-> hijos,
   saldo |-> 0, valido |-> TRUE, nivel |-> 0, refrescos_comprados |-> 0,
   errores |-> <<>>, saldo_actual |-> 0, refrescos_actual |-> 0]

Terminal(simbolo) == Nodo(simbolo, "terminal", <<>>)

(***************************************************************************)
(* _validar_sintaxis                                                       *)
(***************************************************************************)
MsgDelimitadores == "La cadena debe empezar con '{' y terminar con '}'"
MsgDesbalance == "Llaves desbalanceadas"
MsgCaracter(char) == "Carácter inválido: '" \o char \o "'"

\* value of the counter nivel after the first k characters of s
RECURSIVE NivelTras(_, _)
NivelTras(s, k) ==
  IF k = 0 THEN 0
  ELSE NivelTras(s, k - 1)
       + (IF s[k] = "{" THEN 1 ELSE IF s[k] = "}" THEN -1 ELSE 0)

CaracteresValidos == {"{", "}", "$", "R", "<", " "}

\* ErrorSintaxis without the return after the first check: the later checks
\* still run and append.
ErrorSintaxisSinRetorno(cad) ==
  LET s == Strip(cad)
      invalidos == {i \in 1..Len(s) : s[i] \notin CaracteresValidos}
  IN  (IF Len(s) = 0 \/ s[1] /= "{" \/ s[Len(s)] /= "}"
         THEN <<MsgDelimitadores>> ELSE <<>>)
      \o (IF \E k \in 1..Len(s) : NivelTras(s, k) < 0
            THEN <<MsgDesbalance>>
          ELSE IF NivelTras(s, Len(s)) /= 0
            THEN <<MsgDesbalance>>
          ELSE IF invalidos /= {}
            THEN <<MsgCaracter(s[MinDe(invalidos)])>>
          ELSE <<>>)

\* ErrorSintaxis with the character check moved before the balance check.
ErrorSintaxisCaracterPrimero(cad) ==
  LET s == Strip(cad)
      invalidos == {i \in 1..Len(s) : s[i] \notin CaracteresValidos}
  IN  IF Len(s) = 0 \/ s[1] /= "{" \/ s[Len(s)] /= "}"
        THEN <<MsgDelimitadores>>
      ELSE IF invalidos /= {}
        THEN <<MsgCaracter(s[MinDe(invalidos)])>>
      ELSE IF \E k \in 1..Len(s) : NivelTras(s, k) < 0
        THEN <<MsgDesbalance>>
      ELSE IF NivelTras(s, Len(s)) /= 0
        THEN <<MsgDesbalance>>
      ELSE <<>>

\* The message _validar_sintaxis appends, <<>> when it returns True.
ErrorSintaxis(cad) ==
  LET s == Strip(cad)
      invalidos == {i \in 1..Len(s) : s[i] \notin CaracteresValidos}
  IN  IF Len(s) = 0 \/ s[1] /= "{" \/ s[Len(s)] /= "}"
        THEN <<MsgDelimitadores>>
      ELSE IF \E k \in 1..Len(s) : NivelTras(s, k) < 0
        THEN <<MsgDesbalance>>
      ELSE IF NivelTras(s, Len(s)) /= 0
        THEN <<MsgDesbalance>>
      ELSE IF invalidos /= {}
        THEN <<MsgCaracter(s[MinDe(invalidos)])>>
      ELSE <<>>

ValidarSintaxis(cad) == ErrorSintaxis(cad) = <<>>

(***************************************************************************)
(* _procesar_contenido and _construir_arbol                                *)
(***************************************************************************)
\* The inner while loop of the '{' branch: j is the 1-based index of the
\* next character to look at; the result is the 1-based index one past the
\* last character of bloque_completo.
RECURSIVE BuscarCierre(_, _, _)
BuscarCierre(contenido, j, nivel) ==
  IF j <= Len(contenido) /\ nivel > 0
    THEN BuscarCierre(contenido, j + 1,
           IF contenido[j] = "{" THEN nivel + 1
           ELSE IF contenido[j] = "}" THEN nivel - 1
           ELSE nivel)
    ELSE j

RECURSIVE ProcesarContenido(_)
RECURSIVE Bucle(_, _)

\* The while loop of _procesar_contenido from index i (1-based) on: the
\* children it attaches to the current nodo_c.
Bucle(contenido, i) ==
  IF i > Len(contenido) THEN <<>>
  ELSE IF contenido[i] = " " THEN Bucle(contenido, i + 1)
  ELSE
    LET char == contenido[i]
        j == BuscarCierre(contenido, i + 1, 1)
        bloque_completo == SubSeq(contenido, i, j - 1)
        contenido_interno == SinExtremos(bloque_completo)
        hijos_a ==
          IF char \in {"$", "R", "<"} THEN <<Terminal(char)>>
          ELSE IF char = "{"
            THEN <<Terminal("{"),
                   Nodo("C", "no_terminal", ProcesarContenido(contenido_interno)),
                   Terminal("}")>>
          ELSE <<>>
        sig == IF char = "{" THEN j ELSE i + 1
        contenido_restante == Strip(Desde(contenido, sig))
        nodo_a == Nodo("A", "no_terminal", hijos_a)
        nodo_c_siguiente ==
          Nodo("C", "no_terminal",
               IF contenido_restante = <<>> THEN <<Terminal("ε")>>
               ELSE Bucle(contenido, sig))
    IN  <<nodo_a, nodo_c_siguiente>>

\* The children _procesar_contenido gives the C node it is called on.
ProcesarContenido(contenido) ==
  IF contenido = <<>> THEN <<Terminal("ε")>>
  ELSE Bucle(contenido, 1)

ConstruirArbol(cad) ==
  LET contenido == Strip(SinExtremos(cad))
  IN  Nodo("P", "no_terminal",
           <<Terminal("{"),
             Nodo("C", "no_terminal", ProcesarContenido(contenido)),
             Terminal("}")>>)

(***************************************************************************)
(* _decorar_arbol.  DecorarArbol(nodo, padre, nivel) is the call           *)
(* _decorar_arbol(nodo, nivel) on a node whose parent holds the attribute  *)
(* values of padre at the time of the call; the result is the decorated    *)
(* node and the messages the call appends to self.errores_globales, in     *)
(* order.  The closing loop over nodo.hijos ("Decorar hijos restantes")    *)
(* decorates nothing: every Nodo has the attribute saldo.                  *)
(***************************************************************************)
MsgNivel == "Excede el límite de 3 niveles de anidación"
MsgNivelNodo(nivel) ==
  "Excede el límite de 3 niveles de anidación (nivel " \o ToString(nivel) \o ")"
MsgSaldo(saldo_actual) ==
  "Saldo insuficiente para comprar refresco (saldo: " \o ToString(saldo_actual)
    \o ", necesario: 3)"
MsgMaximo == "Excede el máximo de 3 refrescos por bloque"
MsgDevolver == "No hay monedas para devolver"

SinPadre == Terminal("None")

\* ComprarRefresco with the quota checked before the balance.
ComprarRefrescoCuotaPrimero(nodo, padre) ==
  LET saldo_actual == padre.saldo
      refrescos_actual == padre.refrescos_comprados
      n == [nodo EXCEPT !.saldo_actual = saldo_actual,
                        !.refrescos_actual = refrescos_actual]
  IN  IF refrescos_actual >= MaxRefrescos
        THEN [n EXCEPT !.valido = FALSE,
                       !.errores = Append(@, MsgMaximo),
                       !.saldo = saldo_actual,
                       !.refrescos_comprados = refrescos_actual]
      ELSE IF saldo_actual < PrecioRefresco
        THEN [n EXCEPT !.valido = FALSE,
                       !.errores = Append(@, MsgSaldo(saldo_actual)),
                       !.saldo = saldo_actual,
                       !.refrescos_comprados = refrescos_actual]
      ELSE [n EXCEPT !.saldo = saldo_actual - PrecioRefresco,
                     !.valido = TRUE,
                     !.refrescos_comprados = refrescos_actual + 1]

\* ComprarRefresco with the quota test off by one (> for >=).
ComprarRefrescoCuotaLaxa(nodo, padre) ==
  LET saldo_actual == padre.saldo
      refrescos_actual == padre.refrescos_comprados
      n == [nodo EXCEPT !.saldo_actual = saldo_actual,
                        !.refrescos_actual = refrescos_actual]
  IN  IF saldo_actual < PrecioRefresco
        THEN [n EXCEPT !.valido = FALSE,
                       !.errores = Append(@, MsgSaldo(saldo_actual)),
                       !.saldo = saldo_actual,
                       !.refrescos_comprados = refrescos_actual]
      ELSE IF refrescos_actual > MaxRefrescos
        THEN [n EXCEPT !.valido = FALSE,
                       !.errores = Append(@, MsgMaximo),
                       !.saldo = saldo_actual,
                       !.refrescos_comprados = refrescos_actual]
      ELSE [n EXCEPT !.saldo = saldo_actual - PrecioRefresco,
                     !.valido = TRUE,
                     !.refrescos_comprados = refrescos_actual + 1]

\* ComprarRefresco that forgets the balance when the purchase fails.
ComprarRefrescoPierdeSaldo(nodo, padre) ==
  LET saldo_actual == padre.saldo
      refrescos_actual == padre.refrescos_comprados
      n == [nodo EXCEPT !.saldo_actual = saldo_actual,
                        !.refrescos_actual = refrescos_actual]
  IN  IF saldo_actual < PrecioRefresco
        THEN [n EXCEPT !.valido = FALSE,
                       !.errores = Append(@, MsgSaldo(saldo_actual)),
                       !.refrescos_comprados = refrescos_actual]
      ELSE IF refrescos_actual >= MaxRefrescos
        THEN [n EXCEPT !.valido = FALSE,
                       !.errores = Append(@, MsgMaximo),
                       !.refrescos_comprados = refrescos_actual]
      ELSE [n EXCEPT !.saldo = saldo_actual - PrecioRefresco,
                     !.valido = TRUE,
                     !.refrescos_comprados = refrescos_actual + 1]

\* A -> R, lines 236-254
ComprarRefresco(nodo, padre) ==
  LET saldo_actual == padre.saldo
      refrescos_actual == padre.refrescos_comprados
      n == [nodo EXCEPT !.saldo_actual = saldo_actual,
                        !.refrescos_actual = refrescos_actual]
  IN  IF saldo_actual < PrecioRefresco
        THEN [n EXCEPT !.valido = FALSE,
                       !.errores = Append(@, MsgSaldo(saldo_actual)),
                       !.saldo = saldo_actual,
                       !.refrescos_comprados = refrescos_actual]
      ELSE IF refrescos_actual >= MaxRefrescos
        THEN [n EXCEPT !.valido = FALSE,
                       !.errores = Append(@, MsgMaximo),
                       !.saldo = saldo_actual,
                       !.refrescos_comprados = refrescos_actual]
      ELSE [n EXCEPT !.saldo = saldo_actual - PrecioRefresco,
                     !.valido = TRUE,
                     !.refrescos_comprados = refrescos_actual + 1]

\* A -> $, lines 230-234
InsertarMoneda(nodo, padre) ==
  [nodo EXCEPT !.saldo_actual = padre.saldo,
               !.refrescos_actual = padre.refrescos_comprados,
               !.saldo = padre.saldo + 1,
               !.valido = TRUE,
               !.refrescos_comprados = padre.refrescos_comprados]

\* DevolverMoneda without the test of the balance.
DevolverMonedaSinControl(nodo, padre) ==
  [nodo EXCEPT !.saldo_actual = padre.saldo,
               !.refrescos_actual = padre.refrescos_comprados,
               !.refrescos_comprados = padre.refrescos_comprados,
               !.saldo = padre.saldo - 1,
               !.valido = TRUE]

\* A -> <, lines 256-268
DevolverMoneda(nodo, padre) ==
  LET saldo_actual == padre.saldo
      n == [nodo EXCEPT !.saldo_actual = saldo_actual,
                        !.refrescos_actual = padre.refrescos_comprados,
                        !.refrescos_comprados = padre.refrescos_comprados]
  IN  IF saldo_actual < 1
        THEN [n EXCEPT !.valido = FALSE,
                       !.errores = Append(@, MsgDevolver),
                       !.saldo = saldo_actual]
        ELSE [n EXCEPT !.saldo = saldo_actual - 1, !.valido = TRUE]

\* The depth gate, lines 178-183: the node after it is marked invalid.
ExcedeNivel(nodo, nivel) ==
  [nodo EXCEPT !.valido = FALSE,
               !.errores = Append(@, MsgNivelNodo(nivel))]

\* What the depth gate appends to self.errores_globales, line 182.
GlobalNivel == <<MsgNivel>>

\* HeredarDePadre that takes the state of the nested block instead.
HeredarDeBloque(nodo, padre) ==
  [nodo EXCEPT !.saldo_actual = padre.saldo,
               !.refrescos_actual = padre.refrescos_comprados,
               !.saldo = nodo.hijos[2].saldo,
               !.refrescos_comprados = nodo.hijos[2].refrescos_comprados]

\* nodo.saldo = nodo.padre.saldo and the purchase count likewise, lines
\* 277 and 279 (A -> { C }).
HeredarDePadre(nodo, padre) ==
  [nodo EXCEPT !.saldo_actual = padre.saldo,
               !.refrescos_actual = padre.refrescos_comprados,
               !.saldo = padre.saldo,
               !.refrescos_comprados = padre.refrescos_comprados]

\* Sembrar that writes nothing: the next C keeps its initial attributes.
SembrarNada(nodo_c, nodo) == nodo_c

\* Lines 216-217: the inherited state written into the next C.
Sembrar(nodo_c, nodo) ==
  [nodo_c EXCEPT !.saldo = nodo.saldo,
                 !.refrescos_comprados = nodo.refrescos_comprados,
                 !.saldo_actual = nodo.saldo,
                 !.refrescos_actual = nodo.refrescos_comprados]

\* ReglaEpsilon that keeps the inherited balance and purchase count.
ReglaEpsilonConserva(nodo) == [nodo EXCEPT !.valido = TRUE]

\* C -> epsilon, lines 197-200
ReglaEpsilon(nodo) ==
  [nodo EXCEPT !.saldo = 0, !.valido = TRUE, !.refrescos_comprados = 0]

RECURSIVE DecorarArbol(_, _, _)
DecorarArbol(nodo, padre, nivel) ==
  LET n0 == [nodo EXCEPT !.nivel = nivel]
      nh == Len(nodo.hijos)
  IN
  IF nivel > MaxNivel
    THEN [nodo |-> ExcedeNivel(n0, nivel), globales |-> GlobalNivel]
  ELSE IF nodo.simbolo = "P"
    THEN IF nh >= 2
      THEN LET r == DecorarArbol(n0.hijos[2], n0, nivel)
               nodo_c == r.nodo
           IN  [nodo |-> [n0 EXCEPT !.hijos[2] = nodo_c,
                                    !.saldo = nodo_c.saldo,
                                    !.valido = nodo_c.valido,
                                    !.refrescos_comprados = nodo_c.refrescos_comprados,
                                    !.errores = @ \o nodo_c.errores],
                globales |-> r.globales]
      ELSE [nodo |-> n0, globales |-> <<>>]
  ELSE IF nodo.simbolo = "C"
    THEN IF nh = 1 /\ nodo.hijos[1].simbolo = "ε"
      THEN [nodo |-> ReglaEpsilon(n0), globales |-> <<>>]
    ELSE IF nh = 2
      THEN LET ra == DecorarArbol(n0.hijos[1], n0, nivel)
               nodo_a == ra.nodo
               \* "Heredar estado de A", lines 210-213
               n1 == [n0 EXCEPT !.hijos[1] = nodo_a,
                                !.saldo = nodo_a.saldo,
                                !.valido = nodo_a.valido,
                                !.refrescos_comprados = nodo_a.refrescos_comprados,
                                !.errores = @ \o nodo_a.errores]
               rc == DecorarArbol(Sembrar(n0.hijos[2], n1), n1, nivel)
               nodo_c == rc.nodo
           IN  [nodo |-> [n1 EXCEPT !.hijos[2] = nodo_c,
                                    !.saldo = nodo_c.saldo,
                                    !.valido = n1.valido /\ nodo_c.valido,
                                    !.refrescos_comprados = nodo_c.refrescos_comprados,
                                    !.errores = @ \o nodo_c.errores],
                globales |-> ra.globales \o rc.globales]
    ELSE [nodo |-> n0, globales |-> <<>>]
  ELSE IF nodo.simbolo = "A"
    THEN IF nh = 1
      THEN LET hijo == nodo.hijos[1]
           IN  [nodo |-> IF hijo.simbolo = "$" THEN InsertarMoneda(n0, padre)
                         ELSE IF hijo.simbolo = "R" THEN ComprarRefresco(n0, padre)
                         ELSE IF hijo.simbolo = "<" THEN DevolverMoneda(n0, padre)
                         ELSE n0,
                globales |-> <<>>]
    ELSE IF nh = 3
      THEN LET r == DecorarArbol(n0.hijos[2], n0, nivel + 1)
               nodo_c == r.nodo
               n1 == HeredarDePadre([n0 EXCEPT !.hijos[2] = nodo_c], padre)
           IN  [nodo |-> [n1 EXCEPT !.valido = nodo_c.valido,
                                    !.errores = @ \o nodo_c.errores],
                globales |-> r.globales]
    ELSE [nodo |-> n0, globales |-> <<>>]
  ELSE [nodo |-> n0, globales |-> <<>>]

(***************************************************************************)
(* analizar_cadena                                                         *)
(***************************************************************************)
\* ReiniciarErrores without the reset: the list of the earlier call is kept.
SinReiniciar(previos) == previos

\* Line 40: self.errores_globales = []
ReiniciarErrores(previos) == <<>>

\* Line 53
EsValida(nodo_raiz, globales) == nodo_raiz.valido /\ Len(globales) = 0

\* The call analizar_cadena(cad) on an analyzer whose errores_globales is
\* previos: the returned pair and the analyzer's errores_globales after it.
AnalizarCadena(previos, cad) ==
  LET eg0 == ReiniciarErrores(previos)
      eg1 == eg0 \o ErrorSintaxis(cad)
  IN  IF ~ValidarSintaxis(cad)
        THEN [raiz |-> <<>>, es_valida |-> FALSE, errores_globales |-> eg1]
        ELSE LET r == DecorarArbol(ConstruirArbol(cad), SinPadre, 1)
                 eg2 == eg1 \o r.globales
             IN  [raiz |-> <<r.nodo>>,
                  es_valida |-> EsValida(r.nodo, eg2),
                  errores_globales |-> eg2]

(***************************************************************************)
(* The inputs: the strings a caller hands to analizar_cadena, entered one  *)
(* character at a time (so every family below is closed under prefixes).   *)
(*   Corta:    every string of at most MaxLen characters;                  *)
(*   Profunda: braces that never close more than they open, at most        *)
(*             MaxBloques '{', and at most one other valid character;      *)
(*   Compras:  "{" coins purchases N t "}": at most MaxMonedas '$' then at *)
(*             most MaxCompras 'R', then an optional chain N of nested     *)
(*             blocks "{..{ t }..}" (MaxBloques '{' in all) around at most *)
(*             one token, then at most one token t;                        *)
(*   Gramatica: the prefixes of the strings "{" content "}" of at most     *)
(*             MaxGramatica characters, content being tokens and spaces.   *)
(***************************************************************************)
Cuenta(s, ch) == Cardinality({i \in 1..Len(s) : s[i] = ch})

Fichas == {"$", "R", "<"}

Corta(s) == Len(s) <= MaxLen

Profunda(s) ==
  /\ \A i \in 1..Len(s) : s[i] \in CaracteresValidos
  /\ \A k \in 1..Len(s) : NivelTras(s, k) >= 0
  /\ Cuenta(s, "{") <= MaxBloques
  /\ Cardinality({i \in 1..Len(s) : s[i] \notin {"{", "}"}}) <= 1

Repetir(ch, k) == [i \in 1..k |-> ch]

UnaFichaONada == {<<>>} \cup {<<t>> : t \in Fichas}

\* the chains of nested blocks around at most one token, and no chain
Cadenas ==
  {<<>>} \cup {Repetir("{", k) \o t \o Repetir("}", k) :
                 k \in 1..(MaxBloques - 1), t \in UnaFichaONada}

\* what may follow the coins and purchases of the outer block
Colas == {n \o t \o <<"}">> : n \in Cadenas, t \in UnaFichaONada}

\* the prefixes of the members of Colas
PrefijosDeColas == UNION {{SubSeq(c, 1, k) : k \in 0..Len(c)} : c \in Colas}

Compras(s) ==
  LET fin == {i \in 2..Len(s) :
                \/ s[i] \notin {"$", "R"}
                \/ (s[i] = "$" /\ s[i - 1] = "R")}
      p == IF fin = {} THEN Len(s) + 1 ELSE MinDe(fin)
      ronda == SubSeq(s, 2, p - 1)
      cola == SubSeq(s, p, Len(s))
  IN  /\ Len(s) >= 1 => s[1] = "{"
      /\ Cuenta(ronda, "$") <= MaxMonedas
      /\ Cuenta(ronda, "R") <= MaxCompras
      /\ cola \in PrefijosDeColas

Entrada(s) == Corta(s) \/ Profunda(s)

\* "{" content "}": the first '{' is closed by the last '}' and by no
\* earlier one, and every character is of the alphabet
EnGramatica(s) ==
  /\ Len(s) >= 2
  /\ \A i \in 1..Len(s) : s[i] \in CaracteresValidos
  /\ s[1] = "{"
  /\ \A k \in 1..(Len(s) - 1) : NivelTras(s, k) > 0
  /\ NivelTras(s, Len(s)) = 0

Gramatica(s) ==
  /\ Len(s) <= MaxGramatica
  /\ \A i \in 1..Len(s) : s[i] \in CaracteresValidos
  /\ \A k \in 1..(Len(s) - 1) : NivelTras(s, k) > 0
  /\ Len(s) >= 1 => NivelTras(s, Len(s)) >= 0

\* every family at once
Cualquiera(s) ==
  IF Compras(s) THEN TRUE
  ELSE IF Corta(s) THEN TRUE
  ELSE IF Profunda(s) THEN TRUE
  ELSE Gramatica(s)

(***************************************************************************)
(* The state machine: a caller enters a string, calls analizar_cadena on   *)
(* the one analyzer instance, and starts over.                             *)
(***************************************************************************)
Init ==
  /\ cadena = <<>>
  /\ errores_globales = <<>>
  /\ raiz = <<>>
  /\ es_valida = FALSE
  /\ errores_previos = <<>>
  /\ pc = "entrada"

Teclear(ch) ==
  /\ pc = "entrada"
  /\ Entrada(Append(cadena, ch))
  /\ cadena' = Append(cadena, ch)
  /\ UNCHANGED <<errores_globales, raiz, es_valida, errores_previos, pc>>

Analizar ==
  /\ pc = "entrada"
  /\ LET r == AnalizarCadena(errores_globales, cadena)
     IN  /\ raiz' = r.raiz
         /\ es_valida' = r.es_valida
         /\ errores_globales' = r.errores_globales
  /\ errores_previos' = errores_globales
  /\ pc' = "retorno"
  /\ UNCHANGED cadena

Limpiar ==
  /\ pc = "retorno"
  /\ cadena' = <<>>
  /\ raiz' = <<>>
  /\ es_valida' = FALSE
  /\ errores_previos' = <<>>
  /\ pc' = "entrada"
  /\ UNCHANGED errores_globales

Next ==
  \/ \E ch \in Caracteres : Teclear(ch)
  \/ Analizar
  \/ Limpiar

Spec == Init /\ [][Next]_vars

\* One call of analizar_cadena on a new analyzer, on a block of coins,
\* purchases and nested blocks.
TeclearCompras(ch) ==
  /\ pc = "entrada"
  /\ Compras(Append(cadena, ch))
  /\ cadena' = Append(cadena, ch)
  /\ UNCHANGED <<errores_globales, raiz, es_valida, errores_previos, pc>>

NextCompras ==
  \/ \E ch \in Caracteres : TeclearCompras(ch)
  \/ Analizar

SpecCompras == Init /\ [][NextCompras]_vars

\* One call of analizar_cadena on a new analyzer, on any string of at most
\* MaxSintaxis characters of CaracteresSintaxis.
TeclearSintaxis(ch) ==
  /\ pc = "entrada"
  /\ Len(cadena) < MaxSintaxis
  /\ cadena' = Append(cadena, ch)
  /\ UNCHANGED <<errores_globales, raiz, es_valida, errores_previos, pc>>

NextSintaxis ==
  \/ \E ch \in CaracteresSintaxis : TeclearSintaxis(ch)
  \/ Analizar

SpecSintaxis == Init /\ [][NextSintaxis]_vars

\* One call of analizar_cadena on a new analyzer, on a string of any of the
\* families.
TeclearCualquiera(ch) ==
  /\ pc = "entrada"
  /\ Cualquiera(Append(cadena, ch))
  /\ cadena' = Append(cadena, ch)
  /\ UNCHANGED <<errores_globales, raiz, es_valida, errores_previos, pc>>

NextUnaLlamada ==
  \/ \E ch \in Caracteres : TeclearCualquiera(ch)
  \/ Analizar

SpecUnaLlamada == Init /\ [][NextUnaLlamada]_vars

(***************************************************************************)
(* Reading a returned tree.                                                *)
(***************************************************************************)
Retorno == pc = "retorno"
HayArbol == pc = "retorno" /\ raiz /= <<>>
Aceptada == pc = "retorno" /\ ValidarSintaxis(cadena)
Rechazada == pc = "retorno" /\ ~ValidarSintaxis(cadena)

\* the nodes of the tree under n, n included
RECURSIVE Subarboles(_)
Subarboles(n) ==
  {n} \cup UNION {Subarboles(n.hijos[i]) : i \in 1..Len(n.hijos)}

NodosDelArbol == IF raiz = <<>> THEN {} ELSE Subarboles(raiz[1])

Simbolos(n) == [i \in 1..Len(n.hijos) |-> n.hijos[i].simbolo]

\* the symbols of the terminal leaves under n, left to right
RECURSIVE Hojas(_)
RECURSIVE HojasDeHijos(_, _)
HojasDeHijos(hijos, i) ==
  IF i > Len(hijos) THEN <<>>
  ELSE Hojas(hijos[i]) \o HojasDeHijos(hijos, i + 1)
Hojas(n) ==
  IF n.tipo = "terminal" THEN <<n.simbolo>> ELSE HojasDeHijos(n.hijos, 1)

SoloFichas(s) == SelectSeq(s, LAMBDA ch : ch \in Fichas)

(***************************************************************************)
(* C1.  A string that _validar_sintaxis rejects gives no tree, es_valida   *)
(* false and exactly one entry in errores_globales, whatever the analyzer  *)
(* held from earlier calls.                                                *)
(***************************************************************************)
C1_RechazoConUnError ==
  Rechazada =>
    /\ raiz = <<>>
    /\ es_valida = FALSE
    /\ Len(errores_globales) = 1

\* a rejected call made on an analyzer that still held an earlier diagnostic
C1_Witness ==
  /\ Rechazada
  /\ errores_previos /= <<>>
  /\ errores_globales = <<MsgDesbalance>>

(***************************************************************************)
(* C2.  For an accepted string the tree's terminal leaves, read left to    *)
(* right without '{', '}' and 'ε', are the '$', 'R', '<' of the input in   *)
(* order.                                                                  *)
(***************************************************************************)
C2_HojasSonLasFichas ==
  Aceptada =>
    /\ raiz /= <<>>
    /\ SoloFichas(Hojas(raiz[1])) = SoloFichas(cadena)

(***************************************************************************)
(* Diagnostics of a decorated tree.                                        *)
(***************************************************************************)
\* The diagnostics recorded where they arise (the token's A node, the C node
\* stopped by the depth gate), in the order of the decoration pass.
RECURSIVE Diagnosticos(_)
RECURSIVE DiagnosticosDeHijos(_, _)
DiagnosticosDeHijos(hijos, i) ==
  IF i > Len(hijos) THEN <<>>
  ELSE Diagnosticos(hijos[i]) \o DiagnosticosDeHijos(hijos, i + 1)
Diagnosticos(n) ==
  IF n.nivel > MaxNivel THEN n.errores
  ELSE IF n.simbolo = "A" /\ Len(n.hijos) = 1 THEN n.errores
  ELSE DiagnosticosDeHijos(n.hijos, 1)

\* the kind of a diagnostic message
Clase(m) ==
  IF m = MsgMaximo THEN "PurchaseQuotaExceeded"
  ELSE IF m = MsgDevolver THEN "NoCoinToReturn"
  ELSE IF \E k \in 0..Len(cadena) : m = MsgSaldo(k) THEN "InsufficientBalance"
  ELSE IF m = MsgNivel \/ \E k \in 0..Len(cadena) : m = MsgNivelNodo(k)
    THEN "NestingLimitExceeded"
  ELSE "Syntax"

Clases(errs) == [i \in 1..Len(errs) |-> Clase(errs[i])]

HayNivel(errs) == \E i \in 1..Len(errs) : Clase(errs[i]) = "NestingLimitExceeded"

(***************************************************************************)
(* C3.  For an accepted string errores_globales is the ordered merge of    *)
(* the diagnostics recorded on the tree's nodes (every kind, in the order  *)
(* produced), so an invalid tree comes with a non-empty errores_globales.  *)
(***************************************************************************)
C3_GlobalesReunenLosDiagnosticos ==
  HayArbol =>
    /\ Clases(errores_globales) = Clases(Diagnosticos(raiz[1]))
    /\ ~raiz[1].valido => errores_globales /= <<>>

(***************************************************************************)
(* C4.  A nested block A -> { C } decorated with before-state (b, c)       *)
(* leaves the A node with exactly (b, c), the next token of the enclosing  *)
(* block sees (b, c), and a failure inside the nested block makes the A    *)
(* node and the whole analysis invalid.                                    *)
(***************************************************************************)
EsFicha(a) == a.simbolo = "A" /\ Len(a.hijos) \in {1, 3}
EsBloque(a) == a.simbolo = "A" /\ Len(a.hijos) = 3

\* the C nodes of the returned tree that were decorated as C -> A C
NodosAC ==
  {n \in NodosDelArbol :
     n.simbolo = "C" /\ n.nivel \in 1..MaxNivel /\ Len(n.hijos) = 2}

C4_BloqueAnidadoNoAlteraElEstado ==
  \A n \in NodosAC :
    LET a == n.hijos[1]
        sig == n.hijos[2]
    IN  EsBloque(a) =>
          /\ a.saldo = a.saldo_actual
          /\ a.refrescos_comprados = a.refrescos_actual
          /\ (Len(sig.hijos) = 2 /\ EsFicha(sig.hijos[1])) =>
               /\ sig.hijos[1].saldo_actual = a.saldo_actual
               /\ sig.hijos[1].refrescos_actual = a.refrescos_actual
          /\ Diagnosticos(a.hijos[2]) /= <<>> => (~a.valido /\ ~es_valida)

\* a failing nested block met with coins and a purchase on record, followed
\* by a token that succeeds on the coins of the enclosing block
C4_Witness ==
  \E n \in NodosAC :
    LET a == n.hijos[1]
        sig == n.hijos[2]
    IN  /\ EsBloque(a)
        /\ a.saldo_actual > 0 /\ a.refrescos_actual > 0
        /\ Diagnosticos(a.hijos[2]) /= <<>>
        /\ Len(sig.hijos) = 2 /\ Simbolos(sig.hijos[1]) = <<"<">>
        /\ sig.hijos[1].valido

(***************************************************************************)
(* C5.  An R token whose before-state has balance < 3 and purchase count   *)
(* >= 3 records InsufficientBalance, never PurchaseQuotaExceeded; the      *)
(* latter is recorded only with a before-balance >= 3.                     *)
(***************************************************************************)
\* the decorated A -> R nodes of the returned tree
NodosR ==
  {n \in NodosDelArbol :
     n.simbolo = "A" /\ n.nivel >= 1 /\ Simbolos(n) = <<"R">>}

Contiene(errs, m) == \E i \in 1..Len(errs) : errs[i] = m

Profundidad(cad) ==
  LET s == Strip(cad)
  IN  IF s = <<>> THEN 0 ELSE MaxDe({NivelTras(s, k) : k \in 1..Len(s)})

C6_LimiteDeAnidacion ==
  Aceptada =>
    /\ Profundidad(cadena) > MaxNivel =>
         (~es_valida /\ HayNivel(errores_globales))
    /\ Profundidad(cadena) <= MaxNivel =>
         (~HayNivel(errores_globales) /\ ~HayNivel(raiz[1].errores))

(***************************************************************************)
(* C7.  Whatever calls came before on the same analyzer, a call returns    *)
(* the tree, es_valida and errores_globales that the same call returns on  *)
(* a new analyzer (whose errores_globales is empty, line 33).              *)
(***************************************************************************)
C7_SinArrastreEntreLlamadas ==
  Retorno =>
    LET nuevo == AnalizarCadena(<<>>, cadena)
    IN  /\ raiz = nuevo.raiz
        /\ es_valida = nuevo.es_valida
        /\ errores_globales = nuevo.errores_globales

\* a call that builds a tree with one nesting diagnostic, on an analyzer
\* that held a diagnostic from the call before
C7_Witness ==
  /\ HayArbol
  /\ errores_previos /= <<>>
  /\ errores_globales = <<MsgNivel>>

(***************************************************************************)
(* C8.  Every returned tree follows the four productions: P has children   *)
(* '{' C '}', a C node has the one child 'ε' or the two children A C, an A *)
(* node has one child among '$' 'R' '<' or the three children '{' C '}'.   *)
(***************************************************************************)
Conforme(n) ==
  IF n.simbolo = "P" THEN Simbolos(n) = <<"{", "C", "}">>
  ELSE IF n.simbolo = "C" THEN Simbolos(n) \in {<<"ε">>, <<"A", "C">>}
  ELSE IF n.simbolo = "A"
    THEN Simbolos(n) \in {<<"$">>, <<"R">>, <<"<">>, <<"{", "C", "}">>}
  ELSE n.tipo = "terminal" /\ n.hijos = <<>>

C8_ArbolSigueLasProducciones ==
  HayArbol =>
    /\ raiz[1].simbolo = "P"
    /\ \A n \in NodosDelArbol : Conforme(n)

RECURSIVE ErroresEsperados(_, _, _, _)
ErroresEsperados(nodo_c, b, c, nivel) ==
  IF nivel > MaxNivel THEN <<MsgNivelNodo(nivel)>>
  ELSE IF Len(nodo_c.hijos) /= 2 THEN <<>>
  ELSE
    LET a == nodo_c.hijos[1]
        sig == nodo_c.hijos[2]
        t == Simbolos(a)
    IN  IF t = <<"$">> THEN ErroresEsperados(sig, b + 1, c, nivel)
        ELSE IF t = <<"R">>
          THEN IF b < PrecioRefresco
                 THEN <<MsgSaldo(b)>> \o ErroresEsperados(sig, b, c, nivel)
               ELSE IF c >= MaxRefrescos
                 THEN <<MsgMaximo>> \o ErroresEsperados(sig, b, c, nivel)
               ELSE ErroresEsperados(sig, b - PrecioRefresco, c + 1, nivel)
        ELSE IF t = <<"<">>
          THEN IF b < 1
                 THEN <<MsgDevolver>> \o ErroresEsperados(sig, b, c, nivel)
               ELSE ErroresEsperados(sig, b - 1, c, nivel)
        ELSE IF EsBloque(a)
          THEN ErroresEsperados(a.hijos[2], 0, 0, nivel + 1)
                 \o ErroresEsperados(sig, b, c, nivel)
        ELSE ErroresEsperados(sig, b, c, nivel)

\* the decorated A nodes of a failed R or '<'
FichasFallidas ==
  {n \in NodosDelArbol :
     /\ n.simbolo = "A" /\ n.nivel >= 1
     /\ Simbolos(n) \in {<<"R">>, <<"<">>}
     /\ ~n.valido}

C10_DecoracionNoSeDetiene ==
  HayArbol =>
    /\ raiz[1].errores = ErroresEsperados(raiz[1].hijos[2], 0, 0, 1)
    /\ \A n \in FichasFallidas :
         /\ n.saldo = n.saldo_actual
         /\ n.refrescos_comprados = n.refrescos_actual
         /\ Len(n.errores) = 1

\* "{$R{{{}}}<}": the R fails on one coin, the block at depth 4 is refused,
\* and the '<' after them still returns that coin
C10_Witness ==
  /\ HayArbol
  /\ raiz[1].errores = <<MsgSaldo(1), MsgNivelNodo(MaxNivel + 1)>>
  /\ \E n \in NodosDelArbol :
       Simbolos(n) = <<"<">> /\ n.nivel = 1 /\ n.valido /\ n.saldo_actual = 1

(***************************************************************************)
(* C11.  _validar_sintaxis reports the first failing check in the order    *)
(* delimiters, brace balance, characters, not the leftmost defect: a       *)
(* trimmed string with good delimiters, unbalanced braces and a character  *)
(* outside the alphabet gets "Llaves desbalanceadas" wherever the          *)
(* character stands, and when only the characters are wrong the message    *)
(* names the leftmost one.                                                 *)
(***************************************************************************)
Recortada == Strip(cadena)

DelimitadoresBien ==
  /\ Len(Recortada) >= 1
  /\ Recortada[1] = "{"
  /\ Recortada[Len(Recortada)] = "}"

\* the braces of the trimmed string pair up: no prefix closes more than it
\* opens and the whole string opens as many as it closes
LlavesBalanceadas ==
  /\ \A k \in 1..Len(Recortada) :
       Cuenta(SubSeq(Recortada, 1, k), "}") <= Cuenta(SubSeq(Recortada, 1, k), "{")
  /\ Cuenta(Recortada, "{") = Cuenta(Recortada, "}")

PosicionesInvalidas ==
  {i \in 1..Len(Recortada) : Recortada[i] \notin {"{", "}", "$", "R", "<", " "}}

C11_PrimerControlQueFalla ==
  Retorno =>
    /\ ~DelimitadoresBien => errores_globales = <<MsgDelimitadores>>
    /\ (DelimitadoresBien /\ ~LlavesBalanceadas)
         => errores_globales = <<MsgDesbalance>>
    /\ (DelimitadoresBien /\ LlavesBalanceadas /\ PosicionesInvalidas /= {})
         => \E i \in PosicionesInvalidas :
              /\ \A j \in PosicionesInvalidas : i <= j
              /\ errores_globales = <<MsgCaracter(Recortada[i])>>

\* "{x{}": the character outside the alphabet stands before the brace that
\* is never closed, and the balance is what is reported
C11_Witness ==
  /\ Retorno
  /\ DelimitadoresBien /\ ~LlavesBalanceadas
  /\ \E i \in PosicionesInvalidas :
       \A k \in 1..i : Cuenta(SubSeq(Recortada, 1, k), "}")
                          <= Cuenta(SubSeq(Recortada, 1, k), "{")
  /\ errores_globales = <<MsgDesbalance>>

(***************************************************************************)
(* C12.  For a string "{" content "}" es_valida is the verdict of the      *)
(* vending machine run over the string's tokens: each block starts at      *)
(* balance 0 and 0 purchases; '$' adds 1; R succeeds iff balance >= 3 and  *)
(* purchases < 3; '<' succeeds iff balance >= 1; a failed token leaves the *)
(* state as it is; the string is valid iff no token at depth <= 3 fails    *)
(* and no block is deeper than 3.  In the tree, the first token of a block *)
(* sees (0, 0) and every later token sees what the token before it left.   *)
(***************************************************************************)
\* The number of failures the machine meets reading s from position i on;
\* pila holds the (balance, purchases) of the open blocks, innermost last.
RECURSIVE Fallos(_, _, _)
Fallos(s, i, pila) ==
  IF i > Len(s) THEN 0
  ELSE
    LET d == Len(pila)
        b == pila[d][1]
        c == pila[d][2]
        sigue(estado) == Fallos(s, i + 1, [pila EXCEPT ![d] = estado])
    IN  IF s[i] = "{"
          THEN (IF d + 1 > MaxNivel THEN 1 ELSE 0)
                 + Fallos(s, i + 1, Append(pila, <<0, 0>>))
        ELSE IF s[i] = "}" THEN Fallos(s, i + 1, SubSeq(pila, 1, d - 1))
        ELSE IF d > MaxNivel \/ s[i] = " " THEN Fallos(s, i + 1, pila)
        ELSE IF s[i] = "$" THEN sigue(<<b + 1, c>>)
        ELSE IF s[i] = "R"
          THEN IF b >= 3 /\ c < 3 THEN sigue(<<b - 3, c + 1>>)
               ELSE 1 + sigue(<<b, c>>)
        ELSE IF b >= 1 THEN sigue(<<b - 1, c>>)
        ELSE 1 + sigue(<<b, c>>)

Veredicto(s) == Fallos(s, 1, <<>>) = 0

\* the decorated C nodes that open a block: the root's, and the one of every
\* A -> { C } within the depth limit
AperturasDeBloque ==
  {n.hijos[2] : n \in {m \in NodosDelArbol :
                         /\ m.simbolo \in {"P", "A"} /\ Len(m.hijos) = 3
                         /\ m.hijos[2].nivel \in 1..MaxNivel}}

C12_EsValidaEsElVeredicto ==
  (Retorno /\ EnGramatica(cadena)) =>
    /\ raiz /= <<>>
    /\ es_valida = Veredicto(cadena)
    /\ \A n \in AperturasDeBloque :
         Len(n.hijos) = 2 =>
           /\ n.hijos[1].saldo_actual = 0
           /\ n.hijos[1].refrescos_actual = 0
    /\ \A n \in NodosAC :
         Len(n.hijos[2].hijos) = 2 =>
           /\ n.hijos[2].hijos[1].saldo_actual = n.hijos[1].saldo
           /\ n.hijos[2].hijos[1].refrescos_actual
                = n.hijos[1].refrescos_comprados

\* a valid string with three purchases, coins left over and a nested block
\* whose '$' starts from nothing
C12_Witness ==
  /\ Retorno /\ EnGramatica(cadena) /\ es_valida
  /\ \E n \in NodosR : n.valido /\ n.refrescos_comprados = MaxRefrescos
  /\ \E n \in NodosAC :
       /\ EsBloque(n.hijos[1])
       /\ n.hijos[1].saldo_actual > 0
       /\ Len(n.hijos[1].hijos[2].hijos) = 2
       /\ Simbolos(n.hijos[1].hijos[2].hijos[1]) = <<"$">>
       /\ n.hijos[1].hijos[2].hijos[1].saldo_actual = 0

(***************************************************************************)
(* C13.  For every accepted string the root P, and every decorated C node, *)
(* ends with balance 0 and purchase count 0 whatever the last token left   *)
(* (C -> epsilon resets and the reset goes up the chain), and the reset    *)
(* plays no part in any check: a token's before-state is the state written *)
(* into its C node before that node was decorated, and the token succeeds  *)
(* or fails on that state.                                                 *)
(***************************************************************************)
\* the C nodes the decoration pass went through
NodosC ==
  {n \in NodosDelArbol : n.simbolo = "C" /\ n.nivel \in 1..MaxNivel}

C13_ReinicioAlFinalDeLaCadena ==
  HayArbol =>
    /\ raiz[1].saldo = 0
    /\ raiz[1].refrescos_comprados = 0
    /\ \A n \in NodosC : n.saldo = 0 /\ n.refrescos_comprados = 0
    /\ \A n \in NodosAC :
         LET a == n.hijos[1]
             b == n.saldo_actual
             c == n.refrescos_actual
         IN  /\ EsFicha(a) => (a.saldo_actual = b /\ a.refrescos_actual = c)
             /\ Simbolos(a) = <<"R">> => (a.valido <=> (b >= 3 /\ c < 3))
             /\ Simbolos(a) = <<"<">> => (a.valido <=> b >= 1)
             /\ Simbolos(a) = <<"$">> => (a.valido /\ a.saldo = b + 1)

\* the last token of the outer block leaves coins and purchases, and the
\* root reports none
C13_Witness ==
  /\ HayArbol
  /\ raiz[1].saldo = 0 /\ raiz[1].refrescos_comprados = 0
  /\ \E n \in NodosC :
       /\ n.nivel = 1
       /\ Simbolos(n) = <<"ε">>
       /\ n.saldo_actual > 0 /\ n.refrescos_actual > 0
  /\ \E n \in NodosAC :
       /\ n.saldo_actual > 0
       /\ Simbolos(n.hijos[1]) = <<"<">> /\ n.hijos[1].valido

(***************************************************************************)
(* C14.  Leading and trailing spaces have no effect: the call on cadena    *)
(* and the call on its trimmed form return the same es_valida, the same    *)
(* errores_globales and trees of the same shape (symbols, children and     *)
(* nesting depths).                                                        *)
(***************************************************************************)
\* the shape of a tree: each node's symbol, depth and children
RECURSIVE Forma(_)
Forma(n) ==
  [simbolo |-> n.simbolo, nivel |-> n.nivel,
   hijos |-> [i \in 1..Len(n.hijos) |-> Forma(n.hijos[i])]]

FormaDe(arbol) == IF arbol = <<>> THEN <<>> ELSE <<Forma(arbol[1])>>

C14_EspaciosSinEfecto ==
  Retorno =>
    LET recortada == AnalizarCadena(<<>>, Strip(cadena))
    IN  /\ es_valida = recortada.es_valida
        /\ errores_globales = recortada.errores_globales
        /\ FormaDe(raiz) = FormaDe(recortada.raiz)

(***************************************************************************)
(* C15.  A string whose trimmed form is not "{" content "}" (its first '{' *)
(* closed before the end, as in several top-level blocks side by side) is  *)
(* rejected by _validar_sintaxis: no tree is built for it and es_valida is *)
(* never true.                                                             *)
(***************************************************************************)
C15_SoloLaGramaticaEsAceptada ==
  (Retorno /\ ~EnGramatica(Strip(cadena))) =>
    /\ ~ValidarSintaxis(cadena)
    /\ raiz = <<>>
    /\ es_valida = FALSE

(***************************************************************************)
(* C16.  In every returned tree, and at every step of the decoration that  *)
(* made it, every node's balance is >= 0 and its purchase count is between *)
(* 0 and 3.  The values a node holds on the way are in the tree: the pair  *)
(* a token read (saldo_actual, refrescos_actual of its A node), the pair   *)
(* written into a C node before its decoration (the same fields of the C   *)
(* node), the pair a C node takes over from its A node, and the final      *)
(* pairs.                                                                  *)
(***************************************************************************)
EnRango(b, c) == b >= 0 /\ c \in 0..MaxRefrescos

C16_SaldoYComprasEnRango ==
  \A n \in NodosDelArbol :
    /\ EnRango(n.saldo, n.refrescos_comprados)
    /\ EnRango(n.saldo_actual, n.refrescos_actual)

\* "{$$$$$$$$$RRR<}": the quota is reached, no coin is left, the '<' fails
\* and the pair written into the next C node is still (0, 3)
C16_Witness ==
  \E n \in NodosAC :
    /\ Simbolos(n.hijos[1]) = <<"<">>
    /\ ~n.hijos[1].valido
    /\ n.hijos[1].saldo = 0
    /\ n.hijos[1].refrescos_comprados = MaxRefrescos
    /\ n.hijos[2].saldo_actual = 0
    /\ n.hijos[2].refrescos_actual = MaxRefrescos

====
